---- MODULE Spec2Model ----
(***************************************************************************)
(* simplepyged/records.py: GEDCOM lines, the records built on them         *)
(* (Individual, Family) and the kinship queries of Individual.             *)
(*                                                                         *)
(* A record is identified by a number; its xref ("@I1@") is a different    *)
(* number, and the dictionary handed to every Line maps xrefs to records.  *)
(* A line below a record is <<tag, value>>.  Python's None for a record    *)
(* reference is NoRecord; a call's outcome is a record                     *)
(* [kind, exc, val]: what was returned (None, a bool, an int, a record, a  *)
(* list) or which exception left the call.                                 *)
(***************************************************************************)
EXTENDS Integers, Sequences, FiniteSets, TLC

\* ------------------------------------------------------------------ bounds
NumIndi == 3          \* individuals that lines and links may name
NumFam == 2           \* families that lines and links may name
MaxIndi == 4          \* individuals declared by the file
MaxFam == 3           \* families declared by the file
MaxLinks == 5         \* pairs of lines (one in a family, one in an individual)
MaxRawLines == 3      \* single lines of a file read line by line
MaxKinLinks == 6      \* pairs of lines of a file that holds a family tree
MaxDistance == 2      \* the largest limit handed to down_path

\* ----------------------------------------------------------------- records
Indi == 1..NumIndi
Fam == (MaxIndi + 1)..(MaxIndi + NumFam)
Records == Indi \cup Fam
NoRecord == 0
\* every record the file declares; only a family tree names the last ones
AllIndi == 1..MaxIndi
AllFam == (MaxIndi + 1)..(MaxIndi + MaxFam)
AllRecords == AllIndi \cup AllFam

\* xref strings: one per record, and one that no record declares
XrefOf(r) == MaxIndi + MaxFam + r
Dangling == 2 * (MaxIndi + MaxFam) + 1
IndiXrefs == {XrefOf(i) : i \in Indi}
FamXrefs == {XrefOf(f) : f \in Fam}

IndiTags == {"FAMC", "FAMS"}
FamTags == {"HUSB", "WIFE", "CHIL"}

\* Python's recursion limit, as far as it matters: a chain of calls longer
\* than the number of records re-enters a record that is still on the stack,
\* and then never ends by itself.
RecursionLimit == MaxIndi + MaxFam + 1

VARIABLES
  dict,             \* Line._dict: xref -> record
  children_lines,   \* Line._children_lines of every record
  ind_parent_families, \* Individual._parent_families
  ind_families,     \* Individual._families
  fam_husband,      \* Family._husband
  fam_wife,         \* Family._wife
  fam_children,     \* Family._children
  phase,            \* "parse": lines are being added; "ready": _init has run
  call,             \* the last query made
  ret               \* and its outcome

vars == <<dict, children_lines, ind_parent_families, ind_families,
          fam_husband, fam_wife, fam_children, phase, call, ret>>
tree == <<dict, children_lines>>
caches == <<ind_parent_families, ind_families, fam_husband, fam_wife, fam_children>>

\* ---------------------------------------------------------------- outcomes
RNone == [kind |-> "None", exc |-> "", val |-> <<>>]
RBool(b) == [kind |-> "bool", exc |-> "", val |-> <<b>>]
RInt(n) == [kind |-> "int", exc |-> "", val |-> <<n>>]
RRecord(r) == [kind |-> "record", exc |-> "", val |-> <<r>>]
RList(s) == [kind |-> "list", exc |-> "", val |-> s]
Raise(e) == [kind |-> "raise", exc |-> e, val |-> <<>>]

NoCall == [op |-> "", self |-> NoRecord, relative |-> NoRecord, tag |-> "",
           compact |-> FALSE, distance |-> <<>>]
Call1(op, self) == [NoCall EXCEPT !.op = op, !.self = self]
Call2(op, self, relative) == [NoCall EXCEPT !.op = op, !.self = self, !.relative = relative]

\* ------------------------------------------------------------ sequence help
Range(s) == {s[k] : k \in 1..Len(s)}
Contains(s, x) == \E k \in 1..Len(s) : s[k] = x
Reverse(s) == [k \in 1..Len(s) |-> s[Len(s) + 1 - k]]
\* F applied to the value of x, x evaluated once
With(x, F(_)) == CHOOSE y \in {F(v) : v \in {x}} : TRUE
RECURSIVE Flatten(_)
Flatten(ss) == IF ss = <<>> THEN <<>> ELSE Head(ss) \o Flatten(Tail(ss))
RECURSIVE SumLen(_, _)
SumLen(f, S) ==
  IF S = {} THEN 0
  ELSE LET r == CHOOSE x \in S : TRUE IN Len(f[r]) + SumLen(f, S \ {r})

\* ------------------------------------------------------------------- Line
\* Line.children_tags: the child lines with the given tag, in file order
children_tags(self, tag) ==
  SelectSeq(children_lines[self], LAMBDA c : c[1] = tag)

\* Line.children_tag_records: the loop over children_tags, with the KeyError
\* of a value that is no key of the dictionary swallowed
\* the loop with the try around all of it: the first KeyError ends it
RECURSIVE deref_loop_stop(_, _)
deref_loop_stop(es, lines) ==
  IF es = <<>> THEN lines
  ELSE IF Head(es)[2] \in DOMAIN dict
       THEN deref_loop_stop(Tail(es), Append(lines, dict[Head(es)[2]]))
       ELSE lines

RECURSIVE deref_loop(_, _)
deref_loop(es, lines) ==
  IF es = <<>> THEN lines
  ELSE IF Head(es)[2] \in DOMAIN dict
       THEN deref_loop(Tail(es), Append(lines, dict[Head(es)[2]]))
       ELSE deref_loop(Tail(es), lines)

children_tag_records(self, tag) == deref_loop(children_tags(self, tag), <<>>)

\* Line.add_child
add_child(self, line) == [children_lines EXCEPT ![self] = Append(@, line)]

\* ------------------------------------------------------ Individual, Family
get_families(self) == children_tag_records(self, "FAMS")
get_parent_families(self) == children_tag_records(self, "FAMC")

parent_families(self) == ind_parent_families[self]
families(self) == ind_families[self]
husband(f) == fam_husband[f]
wife(f) == fam_wife[f]
Family_children(f) == fam_children[f]

\* Family._init: the first record a HUSB / WIFE line resolves to, or None
first_or_none(s) == IF s = <<>> THEN NoRecord ELSE s[1]

\* parent_family() that picks the first of several families
Individual_parent_family_first(self) ==
  IF Len(parent_families(self)) = 0 THEN RNone
  ELSE RRecord(parent_families(self)[1])

Individual_parent_family(self) ==
  IF Len(parent_families(self)) = 0 THEN RNone
  ELSE IF Len(parent_families(self)) = 1 THEN RRecord(parent_families(self)[1])
  ELSE Raise("MultipleReturnValues")

Individual_family(self) ==
  IF Len(families(self)) = 0 THEN RNone
  ELSE IF Len(families(self)) = 1 THEN RRecord(families(self)[1])
  ELSE Raise("MultipleReturnValues")

\* Family.parents: the husband and the wife that are not None
Family_parents(f) ==
  (IF husband(f) # NoRecord THEN <<husband(f)>> ELSE <<>>)
  \o (IF wife(f) # NoRecord THEN <<wife(f)>> ELSE <<>>)

\* Family.parent_families: the parent families of the husband, then of the wife
Family_parent_families(f) ==
  (IF husband(f) # NoRecord THEN parent_families(husband(f)) ELSE <<>>)
  \o (IF wife(f) # NoRecord THEN parent_families(wife(f)) ELSE <<>>)

\* Individual.parents
parents(self) ==
  Flatten([k \in 1..Len(parent_families(self)) |-> Family_parents(parent_families(self)[k])])

\* Individual.children
children(self) ==
  Flatten([k \in 1..Len(families(self)) |-> Family_children(families(self)[k])])

\* Individual.father / Individual.mother: the one candidate, or the list of
\* candidates when there is none or more than one
fathers(self) ==
  LET pf == parent_families(self)
  IN  Flatten([k \in 1..Len(pf) |->
        IF husband(pf[k]) # NoRecord THEN <<husband(pf[k])>> ELSE <<>>])
mothers(self) ==
  LET pf == parent_families(self)
  IN  Flatten([k \in 1..Len(pf) |->
        IF wife(pf[k]) # NoRecord THEN <<wife(pf[k])>> ELSE <<>>])

\* father() as a singular accessor that picks the first candidate
father_first(self) ==
  IF fathers(self) = <<>> THEN RList(<<>>) ELSE RRecord(fathers(self)[1])

father(self) ==
  IF Len(fathers(self)) = 1 THEN RRecord(fathers(self)[1]) ELSE RList(fathers(self))

mother(self) ==
  IF Len(mothers(self)) = 1 THEN RRecord(mothers(self)[1]) ELSE RList(mothers(self))

\* list(set(a) & set(b)): the common elements, once each, in the order the
\* set happens to iterate in (ord: some order of all families)
Orders == {o \in [1..NumFam -> Fam] : \A j, k \in 1..NumFam : o[j] = o[k] => j = k}
AllOrders == {o \in [1..MaxFam -> AllFam] : \A j, k \in 1..MaxFam : o[j] = o[k] => j = k}
ListOfSet(S, ord) == SelectSeq(ord, LAMBDA f : f \in S)

\* mutual_parent_families with | for &
mutual_parent_families_union(self, candidate, ord) ==
  ListOfSet(Range(parent_families(self)) \cup Range(parent_families(candidate)), ord)

\* Individual.mutual_parent_families
mutual_parent_families(self, candidate, ord) ==
  ListOfSet(Range(parent_families(self)) \cap Range(parent_families(candidate)), ord)

\* Individual.is_parent
is_parent(self, candidate) == Contains(parents(self), candidate)

\* Individual.is_sibling
is_sibling(self, candidate, ord) == mutual_parent_families(self, candidate, ord) # <<>>

\* is_ancestor that looks at the direct parents only
is_ancestor_direct(self, candidate, depth) == RBool(is_parent(self, candidate))

\* Individual.is_ancestor: the recursion over parents(), depth counting the
\* frames on Python's stack
RECURSIVE is_ancestor(_, _, _)
RECURSIVE is_ancestor_loop(_, _, _)
is_ancestor_loop(ps, candidate, depth) ==
  IF ps = <<>> THEN RBool(FALSE)
  ELSE With(is_ancestor(Head(ps), candidate, depth + 1),
            LAMBDA r :
              IF r.kind = "raise" THEN r
              ELSE IF r.val[1] THEN RBool(TRUE)
              ELSE is_ancestor_loop(Tail(ps), candidate, depth))

is_ancestor(self, candidate, depth) ==
  IF depth > RecursionLimit THEN Raise("RuntimeError")
  ELSE IF is_parent(self, candidate) THEN RBool(TRUE)
  ELSE is_ancestor_loop(parents(self), candidate, depth)

\* Individual.distance_to_ancestor: the while loop over generations. A
\* generation that is not empty after more rounds than there are individuals
\* is never empty: the loop does not end.
Diverges == [kind |-> "diverges", exc |-> "", val |-> <<>>]
RECURSIVE distance_loop(_, _, _)
distance_loop(ancestor_list, ancestor, distance) ==
  IF ancestor_list = <<>> THEN RNone
  ELSE IF Contains(ancestor_list, ancestor) THEN RInt(distance)
  ELSE IF distance > MaxIndi THEN Diverges
  ELSE distance_loop(
         Flatten([k \in 1..Len(ancestor_list) |-> parents(ancestor_list[k])]),
         ancestor, distance + 1)

\* distance_to_ancestor that counts self as generation 1
distance_to_ancestor_from_one(self, ancestor) == distance_loop(<<self>>, ancestor, 1)

distance_to_ancestor(self, ancestor) == distance_loop(<<self>>, ancestor, 0)

\* sorted(pairs, key = dist): a stable sort on the second component
SortedByDist(pairs) ==
  LET top == IF pairs = <<>> THEN 0
             ELSE CHOOSE d \in {pairs[k][2] : k \in 1..Len(pairs)} :
                    \A k \in 1..Len(pairs) : pairs[k][2] <= d
  IN  Flatten([d1 \in 1..(top + 1) |-> SelectSeq(pairs, LAMBDA p : p[2] = d1 - 1)])

\* Family._ancestor_families_with_distance: the parent families at this
\* distance, then what each of them gives at distance + 1; depth counts the
\* frames on Python's stack
RECURSIVE Family_ancestor_families_with_distance(_, _, _)
RECURSIVE anc_fam_loop(_, _, _, _)
anc_fam_loop(fams, anc_fam, distance, depth) ==
  IF fams = <<>> THEN RList(anc_fam)
  ELSE With(Family_ancestor_families_with_distance(Head(fams), distance + 1, depth + 1),
            LAMBDA r :
              IF r.kind = "raise" THEN r
              ELSE anc_fam_loop(Tail(fams), anc_fam \o r.val, distance, depth))

Family_ancestor_families_with_distance(f, distance, depth) ==
  IF depth > RecursionLimit THEN Raise("RuntimeError")
  ELSE With(Family_parent_families(f),
            LAMBDA pf :
              anc_fam_loop(pf, [k \in 1..Len(pf) |-> <<pf[k], distance>>], distance, depth))

\* Individual.ancestor_families_with_distance
RECURSIVE ancestor_families_loop(_, _)
ancestor_families_loop(fams, ancestor_families) ==
  IF fams = <<>> THEN With(ancestor_families, LAMBDA l : RList(SortedByDist(l)))
  ELSE With(Family_ancestor_families_with_distance(Head(fams), 1, 2),
            LAMBDA r :
              IF r.kind = "raise" THEN r
              ELSE ancestor_families_loop(Tail(fams),
                     Append(ancestor_families, <<Head(fams), 0>>) \o r.val))

ancestor_families_with_distance(self) ==
  ancestor_families_loop(parent_families(self), <<>>)

\* common_ancestor_families from line 488 on: both lists are not empty
common_of(my_ancestors, his_ancestors) ==
  LET common_without_dist ==
        {my_ancestors[k][1] : k \in 1..Len(my_ancestors)}
          \cap {his_ancestors[k][1] : k \in 1..Len(his_ancestors)}
  IN
  IF common_without_dist = {} THEN RList(<<>>)
  ELSE
  With(SelectSeq(my_ancestors, LAMBDA p : p[1] \in common_without_dist),
       LAMBDA common_with_my_dist :
         \* min(..., key = dist): the first element of the least distance
         With(common_with_my_dist[
                CHOOSE k \in 1..Len(common_with_my_dist) :
                  \A j \in 1..Len(common_with_my_dist) :
                    /\ common_with_my_dist[k][2] <= common_with_my_dist[j][2]
                    /\ (common_with_my_dist[j][2] = common_with_my_dist[k][2] => k <= j)][2],
              LAMBDA min_dist :
                With(SelectSeq(common_with_my_dist, LAMBDA p : p[2] = min_dist),
                     LAMBDA common_min_with_dist :
                       RList([k \in 1..Len(common_min_with_dist) |->
                                common_min_with_dist[k][1]]))))

\* common_ancestor_families without the shortcut for siblings
common_by_distance(self, relative) ==
  With(ancestor_families_with_distance(self),
       LAMBDA mine :
         IF mine.kind = "raise" THEN mine
         ELSE IF mine.val = <<>> THEN RList(<<>>)
         ELSE With(ancestor_families_with_distance(relative),
                   LAMBDA his :
                     IF his.kind = "raise" THEN his
                     ELSE IF his.val = <<>> THEN RList(<<>>)
                     ELSE common_of(mine.val, his.val)))

\* Individual.common_ancestor_families (relative is never None here)
common_ancestor_families(self, relative, ord) ==
  With(mutual_parent_families(self, relative, ord),
       LAMBDA mutual :
         IF mutual # <<>> THEN RList(mutual)
         ELSE common_by_distance(self, relative))

\* Individual.common_ancestors: the parents of those families, each once
RECURSIVE append_new(_, _)
append_new(common_ancestors_, ps) ==
  IF ps = <<>> THEN common_ancestors_
  ELSE append_new(
         IF Contains(common_ancestors_, Head(ps)) THEN common_ancestors_
         ELSE Append(common_ancestors_, Head(ps)),
         Tail(ps))

common_ancestors(self, relative, ord) ==
  With(common_ancestor_families(self, relative, ord),
       LAMBDA fams :
         IF fams.kind = "raise" THEN fams
         ELSE RList(append_new(<<>>,
                Flatten([k \in 1..Len(fams.val) |-> Family_parents(fams.val[k])]))))

\* Individual.common_ancestor
common_ancestor(self, relative, ord) ==
  With(common_ancestors(self, relative, ord),
       LAMBDA cas :
         IF cas.kind = "raise" THEN cas
         ELSE IF Len(cas.val) = 0 THEN RNone
         ELSE IF Len(cas.val) = 1 THEN RRecord(cas.val[1])
         ELSE Raise("MultipleReturnValues"))

\* Individual.down_path: distance is <<>> for None and <<d>> for a number;
\* depth counts the frames on Python's stack
RECURSIVE down_path(_, _, _, _)
RECURSIVE down_path_loop(_, _, _, _, _)
down_path_loop(cs, ancestor, descendant, distance, depth) ==
  IF cs = <<>> THEN RNone
  ELSE With(down_path(Head(cs), descendant,
                      IF distance = <<>> THEN <<>> ELSE <<distance[1] - 1>>,
                      depth + 1),
            LAMBDA path :
              IF path.kind = "raise" THEN path
              ELSE IF path.kind # "None" THEN RList(<<ancestor>> \o path.val)
              ELSE down_path_loop(Tail(cs), ancestor, descendant, distance, depth))

\* down_path that looks at the limit after it has compared the two records
down_path_limit_late(ancestor, descendant, distance, depth) ==
  IF depth > RecursionLimit THEN Raise("RuntimeError")
  ELSE IF ancestor = descendant THEN RList(<<ancestor>>)
  ELSE IF distance # <<>> /\ distance[1] <= 0 THEN RNone
  ELSE With(children(ancestor),
            LAMBDA cs :
              IF cs = <<>> THEN RNone
              ELSE IF Contains(cs, descendant) THEN RList(<<ancestor, descendant>>)
              ELSE down_path_loop(cs, ancestor, descendant, distance, depth))

down_path(ancestor, descendant, distance, depth) ==
  IF depth > RecursionLimit THEN Raise("RuntimeError")
  ELSE IF distance # <<>> /\ distance[1] <= 0 THEN RNone
  ELSE IF ancestor = descendant THEN RList(<<ancestor>>)
  ELSE With(children(ancestor),
            LAMBDA cs :
              IF cs = <<>> THEN RNone
              ELSE IF Contains(cs, descendant) THEN RList(<<ancestor, descendant>>)
              ELSE down_path_loop(cs, ancestor, descendant, distance, depth))

\* path_to_relative, lines 629-637: my_path (who = self) and his_path
\* (who = relative) as first assigned
side_path(who, common_ancestors_) ==
  IF Contains(common_ancestors_, who) THEN RList(<<>>)
  ELSE With(distance_to_ancestor(who, common_ancestors_[1]),
            LAMBDA d :
              IF d.kind = "diverges" THEN d
              ELSE down_path(common_ancestors_[1], who,
                             IF d.kind = "int" THEN d.val ELSE <<>>, 1))

\* the steps of a path up to and with the first x (the loops with break)
UpTo(path, x) == SubSeq(path, 1, CHOOSE k \in 1..Len(path) :
                                   path[k] = x /\ \A j \in 1..(k - 1) : path[j] # x)
Rest(path) == IF path = <<>> THEN <<>> ELSE Tail(path)
Steps(path, direction) == [k \in 1..Len(path) |-> <<path[k], direction>>]

\* path_to_relative, lines 642-688: my_path and his_path are reversed
path_join(self, relative, compact, ord, common_ancestor_, my_reversed, his_reversed) ==
  LET cut_mine == Contains(my_reversed, relative)
      my_1 == IF cut_mine THEN UpTo(my_reversed, relative) ELSE my_reversed
      his_1 == IF cut_mine THEN <<relative>> ELSE his_reversed
      cut_his == Contains(his_1, self)
      his_2 == IF cut_his THEN UpTo(his_1, self) ELSE his_1
      my_path == IF cut_his THEN <<self>> ELSE my_1
      his_path == Reverse(his_2)
      full_path == << <<self, "start">> >> \o Steps(Rest(my_path), "parent")
  IN
  IF ~compact THEN RList(full_path \o Steps(Rest(his_path), "child"))
  \* his_path[1] raises IndexError, which is caught
  ELSE IF Len(his_path) < 2
  THEN RList(full_path \o << <<common_ancestor_, "child">> >>
               \o Steps(Rest(his_path), "child"))
  \* full_path[-1] is a tuple: assigning to its item raises TypeError
  ELSE IF is_sibling(full_path[Len(full_path)][1], his_path[2], ord)
  THEN Raise("TypeError")
  ELSE RList(full_path \o << <<common_ancestor_, "child">> >>
               \o Steps(Rest(his_path), "child"))

\* path_to_relative, lines 627-640
path_via(self, relative, compact, ord, common_ancestors_) ==
  With(side_path(self, common_ancestors_),
       LAMBDA mine :
         IF mine.kind \in {"raise", "diverges"} THEN mine
         ELSE With(side_path(relative, common_ancestors_),
                   LAMBDA his :
                     IF his.kind \in {"raise", "diverges"} THEN his
                     \* None.reverse()
                     ELSE IF mine.kind = "None" \/ his.kind = "None"
                     THEN Raise("AttributeError")
                     ELSE path_join(self, relative, compact, ord, common_ancestors_[1],
                                    Reverse(mine.val), Reverse(his.val))))

\* path_to_relative that asks for common ancestors before it looks at the
\* direct parents and children
path_to_relative_no_base(self, relative, compact, ord) ==
  IF relative = self THEN RList(<< <<self, "start">> >>)
  ELSE With(common_ancestors(self, relative, ord),
            LAMBDA cas :
              IF cas.kind = "raise" THEN cas
              ELSE IF cas.val = <<>> THEN RNone
              ELSE path_via(self, relative, compact, ord, cas.val))

\* Individual.path_to_relative
path_to_relative(self, relative, compact, ord) ==
  IF relative = self THEN RList(<< <<self, "start">> >>)
  ELSE IF Contains(parents(self), relative)
  THEN RList(<< <<self, "start">>, <<relative, "parent">> >>)
  ELSE IF Contains(children(self), relative)
  THEN RList(<< <<self, "start">>, <<relative, "child">> >>)
  ELSE With(common_ancestors(self, relative, ord),
            LAMBDA cas :
              IF cas.kind = "raise" THEN cas
              ELSE IF cas.val = <<>> THEN RNone
              ELSE path_via(self, relative, compact, ord, cas.val))

\* ------------------------------------------------------------------ state
Init ==
  /\ dict = [x \in {XrefOf(r) : r \in AllRecords} |-> x - (MaxIndi + MaxFam)]
  /\ children_lines = [r \in AllRecords |-> <<>>]
  /\ ind_parent_families = [i \in AllIndi |-> <<>>]
  /\ ind_families = [i \in AllIndi |-> <<>>]
  /\ fam_husband = [f \in AllFam |-> NoRecord]
  /\ fam_wife = [f \in AllFam |-> NoRecord]
  /\ fam_children = [f \in AllFam |-> <<>>]
  /\ phase = "parse"
  /\ call = NoCall
  /\ ret = RNone

NumLines == SumLen(children_lines, AllRecords)

\* The file is read one line at a time: a line below an individual or below
\* a family, whose value is the xref of a record of the other kind or an
\* xref that nothing declares.
AddLine(r, tag, value) ==
  /\ phase = "parse"
  /\ NumLines < MaxRawLines
  /\ children_lines' = add_child(r, <<tag, value>>)
  /\ UNCHANGED <<dict, caches, phase, call, ret>>

\* Individual._init and Family._init of every record, after the last line
RunInit ==
  /\ phase = "parse"
  /\ ind_parent_families' = [i \in AllIndi |-> get_parent_families(i)]
  /\ ind_families' = [i \in AllIndi |-> get_families(i)]
  /\ fam_husband' = [f \in AllFam |-> first_or_none(children_tag_records(f, "HUSB"))]
  /\ fam_wife' = [f \in AllFam |-> first_or_none(children_tag_records(f, "WIFE"))]
  /\ fam_children' = [f \in AllFam |-> children_tag_records(f, "CHIL")]
  /\ phase' = "ready"
  /\ UNCHANGED <<tree, call, ret>>

Query(c, r) ==
  /\ phase = "ready"
  /\ call = NoCall
  /\ call' = c
  /\ ret' = r
  /\ UNCHANGED <<tree, caches, phase>>

\* the caller is done with the outcome
Done ==
  /\ phase = "ready"
  /\ call # NoCall
  /\ call' = NoCall
  /\ ret' = RNone
  /\ UNCHANGED <<tree, caches, phase>>

TagsOf(r) == IF r \in AllIndi THEN IndiTags ELSE FamTags

\* A family and an individual that name each other: the line in the family
\* and the line in the individual that a well-formed file holds for it.
MemberTag(tag) == IF tag = "CHIL" THEN "FAMC" ELSE "FAMS"
\* Xrefs are numbered in the order the file first uses them: a record takes
\* part in a link only when every record of its kind before it already does.
Used(r) == children_lines[r] # <<>>
InOrder(r, S) == \A q \in S : q < r => Used(q)
AddLink(f, tag, i) ==
  /\ phase = "parse"
  /\ NumLines < 2 * MaxLinks
  /\ InOrder(f, Fam) /\ InOrder(i, Indi)
  /\ ~Contains(children_lines[f], <<tag, XrefOf(i)>>)
  /\ tag # "CHIL" => children_tags(f, tag) = <<>>
  /\ children_lines' = [children_lines EXCEPT
        ![f] = Append(@, <<tag, XrefOf(i)>>),
        ![i] = Append(@, <<MemberTag(tag), XrefOf(f)>>)]
  /\ UNCHANGED <<dict, caches, phase, call, ret>>

ReadLink == \E f \in Fam : \E tag \in FamTags : \E i \in Indi : AddLink(f, tag, i)

Q_children_tag_records ==
  \E r \in Records : \E tag \in TagsOf(r) :
    Query([Call1("children_tag_records", r) EXCEPT !.tag = tag],
          RList(children_tag_records(r, tag)))

Q_parent_families == \E i \in Indi : Query(Call1("parent_families", i), RList(parent_families(i)))
Q_families == \E i \in Indi : Query(Call1("families", i), RList(families(i)))
Q_parent_family == \E i \in Indi : Query(Call1("parent_family", i), Individual_parent_family(i))
Q_family == \E i \in Indi : Query(Call1("family", i), Individual_family(i))

ReadLine ==
  \/ \E i \in Indi : \E tag \in IndiTags : \E v \in FamXrefs \cup {Dangling} :
       AddLine(i, tag, v)
  \/ \E f \in Fam : \E tag \in FamTags : \E v \in IndiXrefs \cup {Dangling} :
       AddLine(f, tag, v)

NextRecords ==
  \/ ReadLine
  \/ RunInit
  \/ Q_children_tag_records
  \/ Q_parent_families
  \/ Q_families
  \/ Q_parent_family
  \/ Q_family
  \/ Done

SpecRecords == Init /\ [][NextRecords]_vars

\* ---------------------------------------------------- ancestry queries
Q_is_ancestor ==
  \E i \in Indi : \E x \in Indi :
    Query(Call2("is_ancestor", i, x), is_ancestor(i, x, 1))

Q_distance_to_ancestor ==
  \E i \in Indi : \E x \in Indi :
    Query(Call2("distance_to_ancestor", i, x), distance_to_ancestor(i, x))

Q_father == \E i \in Indi : Query(Call1("father", i), father(i))
Q_mother == \E i \in Indi : Query(Call1("mother", i), mother(i))

\* ------------------------------------------- common ancestor queries
Q_mutual_parent_families ==
  \E i \in Indi : \E x \in Indi : \E ord \in Orders :
    Query(Call2("mutual_parent_families", i, x), RList(mutual_parent_families(i, x, ord)))

Q_is_sibling ==
  \E i \in Indi : \E x \in Indi : \E ord \in Orders :
    Query(Call2("is_sibling", i, x), RBool(is_sibling(i, x, ord)))

Q_common_ancestor_families ==
  \E i \in Indi : \E x \in Indi : \E ord \in Orders :
    Query(Call2("common_ancestor_families", i, x), common_ancestor_families(i, x, ord))

Q_common_ancestors ==
  \E i \in Indi : \E x \in Indi : \E ord \in Orders :
    Query(Call2("common_ancestors", i, x), common_ancestors(i, x, ord))

Q_common_ancestor ==
  \E i \in Indi : \E x \in Indi : \E ord \in Orders :
    Query(Call2("common_ancestor", i, x), common_ancestor(i, x, ord))

Q_ancestor_families_with_distance ==
  \E i \in Indi :
    Query(Call1("ancestor_families_with_distance", i), ancestor_families_with_distance(i))

NextSiblings ==
  \/ ReadLink
  \/ RunInit
  \/ Q_is_sibling
  \/ Q_common_ancestor_families
  \/ Q_common_ancestors
  \/ Done

SpecSiblings == Init /\ [][NextSiblings]_vars

NextFamilies ==
  \/ ReadLink
  \/ RunInit
  \/ Q_ancestor_families_with_distance
  \/ Q_mutual_parent_families
  \/ Q_common_ancestor
  \/ Done

SpecFamilies == Init /\ [][NextFamilies]_vars

\* ------------------------------------------------------ path queries
Q_path_to_relative ==
  \E i \in Indi : \E x \in Indi : \E compact \in BOOLEAN : \E ord \in Orders :
    Query([Call2("path_to_relative", i, x) EXCEPT !.compact = compact],
          path_to_relative(i, x, compact, ord))

NextPath ==
  \/ ReadLink
  \/ RunInit
  \/ Q_path_to_relative
  \/ Done

SpecPath == Init /\ [][NextPath]_vars

\* -------------------------------------------------- descendant search
Q_down_path ==
  \E a \in Indi : \E x \in Indi : \E d \in -1..MaxDistance :
    Query([Call2("down_path", a, x) EXCEPT !.distance = <<d>>],
          down_path(a, x, <<d>>, 1))

NextDownPath ==
  \/ ReadLink
  \/ RunInit
  \/ Q_down_path
  \/ Done

SpecDownPath == Init /\ [][NextDownPath]_vars

\* ------------------------------------------------------- family trees
\* A file that holds a family tree: individuals are numbered oldest
\* generation first, so the husband and the wife of a family come before
\* each of its children, and nobody is an ancestor of itself; an individual
\* is the child of one family at most; the lines of one individual are read
\* before those of the next.
AddKin(f, tag, i) ==
  /\ phase = "parse"
  /\ NumLines < 2 * MaxKinLinks
  /\ InOrder(f, AllFam) /\ InOrder(i, AllIndi)
  /\ \A q \in AllIndi : Used(q) => q <= i
  /\ tag = "CHIL" => children_tags(i, "FAMC") = <<>>
  /\ ~Contains(children_lines[f], <<tag, XrefOf(i)>>)
  /\ tag # "CHIL" => children_tags(f, tag) = <<>>
  /\ \A k \in 1..Len(children_lines[f]) :
       LET other == children_lines[f][k]
       IN  /\ (tag = "CHIL" /\ other[1] # "CHIL") => other[2] < XrefOf(i)
           /\ (tag # "CHIL" /\ other[1] = "CHIL") => XrefOf(i) < other[2]
  /\ children_lines' = [children_lines EXCEPT
        ![f] = Append(@, <<tag, XrefOf(i)>>),
        ![i] = Append(@, <<MemberTag(tag), XrefOf(f)>>)]
  /\ UNCHANGED <<dict, caches, phase, call, ret>>

ReadKin == \E f \in AllFam : \E tag \in FamTags : \E i \in AllIndi : AddKin(f, tag, i)

\* Two individuals of a tree share one parent family at most, so the order
\* in which a set of families iterates does not show.
AnyOrder == CHOOSE ord \in AllOrders : TRUE
Q_path_in_tree ==
  \E i \in AllIndi : \E x \in AllIndi :
    Query(Call2("path_to_relative", i, x), path_to_relative(i, x, FALSE, AnyOrder))

NextTree ==
  \/ ReadKin
  \/ RunInit
  \/ Q_path_in_tree
  \/ Done

SpecTree == Init /\ [][NextTree]_vars

\* ------------------------------------------------------------ all of it
NextAncestry ==
  \/ ReadLink
  \/ RunInit
  \/ Q_is_ancestor
  \/ Q_distance_to_ancestor
  \/ Q_father
  \/ Q_mother
  \/ Done

SpecAncestry == Init /\ [][NextAncestry]_vars

\* Every way to build the records and every query. The claims are checked
\* under the specifications above, each with the queries it is about.
Next ==
  \/ NextRecords
  \/ NextAncestry
  \/ NextSiblings
  \/ NextFamilies
  \/ NextPath
  \/ NextDownPath
  \/ NextTree

Spec == Init /\ [][Next]_vars

\* ------------------------------------------------ the parent relation
\* the individuals exactly n parents() hops above i
RECURSIVE Hops(_, _)
Hops(i, n) ==
  IF n = 0 THEN {i}
  ELSE UNION {Range(parents(a)) : a \in Hops(i, n - 1)}

Ancestors(i) == UNION {Hops(i, n) : n \in 1..MaxIndi}
Acyclic == \A i \in AllIndi : i \notin Ancestors(i)
Distances(i, x) == {n \in 0..MaxIndi : x \in Hops(i, n)}
Least(S) == CHOOSE n \in S : \A m \in S : n <= m

\* C3: is_ancestor(I, X) ends with a boolean on every graph, cyclic ones
\* included.
C3_IsAncestorReturnsBool ==
  call.op = "is_ancestor" => ret.kind = "bool"

\* C4: on an acyclic parent relation is_ancestor(I, X) is true exactly when X
\* is one or more parents() hops above I.
C4_IsAncestorIsReachability ==
  (call.op = "is_ancestor" /\ Acyclic)
    => ret = RBool(call.relative \in Ancestors(call.self))

C4_Witness ==
  /\ call.op = "is_ancestor" /\ Acyclic
  /\ call.relative \in Hops(call.self, 2)
  /\ call.relative \notin Hops(call.self, 1)
  /\ ret = RBool(TRUE)

\* C5: on an acyclic parent relation distance_to_ancestor(I, X) is the least
\* number of parents() hops from I to X (0 for I itself), and None when X is
\* not above I.
C5_DistanceIsLeastHops ==
  (call.op = "distance_to_ancestor" /\ Acyclic)
    => ret = IF Distances(call.self, call.relative) = {} THEN RNone
             ELSE RInt(Least(Distances(call.self, call.relative)))

C5_Witness ==
  /\ call.op = "distance_to_ancestor" /\ Acyclic
  /\ Distances(call.self, call.relative) = {1, 2}
  /\ ret = RInt(1)

\* C8 as stated: with two or more father candidates father() returns one
\* Individual, the husband of the first parent family that has one; mother()
\* likewise over wives.
C8_FatherReturnsFirst ==
  /\ (call.op = "father" /\ Len(fathers(call.self)) >= 2)
       => ret = RRecord(fathers(call.self)[1])
  /\ (call.op = "mother" /\ Len(mothers(call.self)) >= 2)
       => ret = RRecord(mothers(call.self)[1])

\* the husbands (wives) of the parent families that have one, in the order of
\* the FAMC lines
HusbandsInOrder(i) ==
  LET pf == SelectSeq(parent_families(i), LAMBDA f : fam_husband[f] # NoRecord)
  IN  [k \in 1..Len(pf) |-> fam_husband[pf[k]]]
WivesInOrder(i) ==
  LET pf == SelectSeq(parent_families(i), LAMBDA f : fam_wife[f] # NoRecord)
  IN  [k \in 1..Len(pf) |-> fam_wife[pf[k]]]

\* C8 amended: with two or more candidates father() returns the list of all
\* of them, in the order of the parent families, and does not raise; mother()
\* likewise over wives.
C8_FatherReturnsAll ==
  /\ (call.op = "father" /\ Len(HusbandsInOrder(call.self)) >= 2)
       => ret = RList(HusbandsInOrder(call.self))
  /\ (call.op = "mother" /\ Len(WivesInOrder(call.self)) >= 2)
       => ret = RList(WivesInOrder(call.self))

C8_Witness ==
  /\ call.op = "father" /\ Acyclic
  /\ Len(HusbandsInOrder(call.self)) = 2
  /\ HusbandsInOrder(call.self)[1] # HusbandsInOrder(call.self)[2]
  /\ ret.kind = "list"

\* ------------------------------------------------ what the lines resolve to
\* the places of the lines below r with the given tag whose value is a key of
\* the dictionary, and the record the j-th of them names
ResolvingAt(r, tag) ==
  {k \in 1..Len(children_lines[r]) :
     children_lines[r][k][1] = tag /\ children_lines[r][k][2] \in DOMAIN dict}
NthOf(S, j) == CHOOSE k \in S : Cardinality({m \in S : m <= k}) = j
Resolved(r, tag) ==
  [j \in 1..Cardinality(ResolvingAt(r, tag)) |->
     dict[children_lines[r][NthOf(ResolvingAt(r, tag), j)][2]]]
OneOf(s) ==
  IF Len(s) = 0 THEN RNone
  ELSE IF Len(s) = 1 THEN RRecord(s[1])
  ELSE Raise("MultipleReturnValues")

\* C7: parent_families() is the families the FAMC lines resolve to, in the
\* order of the lines; parent_family() is None for none of them, the family
\* for one, and raises MultipleReturnValues for two or more; families() and
\* family() are the same over the FAMS lines.
C7_FamilyAccessors ==
  /\ call.op = "parent_families" => ret = RList(Resolved(call.self, "FAMC"))
  /\ call.op = "parent_family" => ret = OneOf(Resolved(call.self, "FAMC"))
  /\ call.op = "families" => ret = RList(Resolved(call.self, "FAMS"))
  /\ call.op = "family" => ret = OneOf(Resolved(call.self, "FAMS"))

C7_Witness ==
  /\ call.op = "parent_family"
  /\ Len(Resolved(call.self, "FAMC")) = 2
  /\ Resolved(call.self, "FAMC")[1] > Resolved(call.self, "FAMC")[2]
  /\ ret = Raise("MultipleReturnValues")

\* C9: children_tag_records(tag) does not raise on a value that is no key of
\* the dictionary: it returns the records of the matching lines whose value
\* is a key, in file order, and leaves the others out; so do the fields that
\* _init fills from it; and no query changes the dictionary or the lines.
C9_DanglingOmitted ==
  [][/\ call'.op = "children_tag_records"
          => ret' = RList(Resolved(call'.self, call'.tag))
     /\ phase' = "ready" =>
          /\ \A i \in Indi :
               /\ ind_parent_families'[i] = Resolved(i, "FAMC")
               /\ ind_families'[i] = Resolved(i, "FAMS")
          /\ \A f \in Fam :
               /\ fam_children'[f] = Resolved(f, "CHIL")
               /\ fam_husband'[f] = IF Resolved(f, "HUSB") = <<>> THEN NoRecord
                                    ELSE Resolved(f, "HUSB")[1]
               /\ fam_wife'[f] = IF Resolved(f, "WIFE") = <<>> THEN NoRecord
                                 ELSE Resolved(f, "WIFE")[1]
     /\ phase = "ready" => tree' = tree]_vars

C9_Witness ==
  /\ call.op = "children_tag_records"
  /\ \E j, k \in 1..Len(children_lines[call.self]) :
       /\ j < k
       /\ children_lines[call.self][j] = <<call.tag, Dangling>>
       /\ children_lines[call.self][k][1] = call.tag
       /\ children_lines[call.self][k][2] \in DOMAIN dict
  /\ Len(ret.val) = 1

\* ----------------------------------------------------------- path claims
Path(steps) == RList(steps)

\* C1 as stated: for K, a parent P of K and a parent G of P, with no other
\* lineage between K and G, path_to_relative(K, G) without compact is
\* [(K, start), (P, parent), (G, parent)], also when G has no parent family.
C1_GrandparentPath ==
  (/\ call.op = "path_to_relative" /\ ~call.compact /\ Acyclic
   /\ call.relative \in Hops(call.self, 2)
   /\ call.relative \notin Hops(call.self, 1))
    => \E P \in Range(parents(call.self)) :
         /\ call.relative \in Range(parents(P))
         /\ ret = Path(<< <<call.self, "start">>, <<P, "parent">>,
                          <<call.relative, "parent">> >>)

\* C2 as stated: path_to_relative(I, I) is [(I, start)]; for A in B.parents()
\* path_to_relative(B, A) is [(B, start), (A, parent)]; for B in A.children()
\* that is no parent of A path_to_relative(A, B) is [(A, start), (B, child)];
\* with and without compact, whatever else the graph holds.
C2_BaseCasesAsStated ==
  call.op = "path_to_relative" =>
    /\ call.relative = call.self
         => ret = Path(<< <<call.self, "start">> >>)
    /\ call.relative \in Range(parents(call.self))
         => ret = Path(<< <<call.self, "start">>, <<call.relative, "parent">> >>)
    /\ (call.relative \in Range(children(call.self))
        /\ call.relative \notin Range(parents(call.self)))
         => ret = Path(<< <<call.self, "start">>, <<call.relative, "child">> >>)

\* C2 amended: the same, for a parent A other than B itself and for a child B
\* that is neither A itself nor a parent of A.
C2_BaseCases ==
  call.op = "path_to_relative" =>
    /\ call.relative = call.self
         => ret = Path(<< <<call.self, "start">> >>)
    /\ (call.relative \in Range(parents(call.self)) /\ call.relative # call.self)
         => ret = Path(<< <<call.self, "start">>, <<call.relative, "parent">> >>)
    /\ (/\ call.relative \in Range(children(call.self))
        /\ call.relative \notin Range(parents(call.self))
        /\ call.relative # call.self)
         => ret = Path(<< <<call.self, "start">>, <<call.relative, "child">> >>)

C2_Witness ==
  /\ call.op = "path_to_relative" /\ call.compact /\ Acyclic
  /\ call.relative \in Range(parents(call.self))
  /\ call.relative # call.self
  /\ Ancestors(call.relative) = {}
  /\ Cardinality(Ancestors(call.self)) >= 2
  /\ ret = Path(<< <<call.self, "start">>, <<call.relative, "parent">> >>)

\* ------------------------------------------------------ sibling claims
Shared(c, d) == Range(parent_families(c)) \cap Range(parent_families(d))
ParentsOfFamilies(F) ==
  ({fam_husband[f] : f \in F} \cup {fam_wife[f] : f \in F}) \ {NoRecord}
NoRepeat(s) == \A j, k \in 1..Len(s) : s[j] = s[k] => j = k

\* C6: for C and D that share a parent family, C.is_sibling(D) is true;
\* common_ancestor_families(C, D) is the families that are parent families
\* of both, each once, whatever lies above them, and the same set for
\* (D, C); common_ancestors(C, D) is the husbands and wives of those
\* families, each once.
C6_Siblings ==
  (/\ call.op \in {"is_sibling", "common_ancestor_families", "common_ancestors"}
   /\ Shared(call.self, call.relative) # {}) =>
    /\ call.op = "is_sibling" => ret = RBool(TRUE)
    /\ call.op = "common_ancestor_families" =>
         /\ ret.kind = "list" /\ NoRepeat(ret.val)
         /\ Range(ret.val) = Shared(call.self, call.relative)
         /\ \A ord \in Orders :
              Range(common_ancestor_families(call.relative, call.self, ord).val)
                = Range(ret.val)
    /\ call.op = "common_ancestors" =>
         /\ ret.kind = "list" /\ NoRepeat(ret.val)
         /\ Range(ret.val) = ParentsOfFamilies(Shared(call.self, call.relative))

C6_Witness ==
  /\ call.op = "common_ancestors" /\ Acyclic
  /\ call.self # call.relative
  /\ Cardinality(Shared(call.self, call.relative)) = 1
  /\ Cardinality(Range(parent_families(call.self))) = 2
  /\ Len(ret.val) = 1

\* ------------------------------------------------ ancestor family claims
\* the families n generations above the parent families of i
RECURSIVE FamHops(_, _)
FamHops(i, n) ==
  IF n = 0 THEN Range(parent_families(i))
  ELSE UNION {Range(parent_families(p)) :
                p \in ParentsOfFamilies(FamHops(i, n - 1))}
AncestorFamilies(i) == UNION {FamHops(i, n) : n \in 0..MaxFam}
FamDistance(i, f) == Least({n \in 0..MaxFam : f \in FamHops(i, n)})

\* C10: on acyclic data ancestor_families_with_distance(I) is sorted by
\* distance and gives each ancestor family of I its least distance from I,
\* and no larger one.
C10_LeastDistanceOnly ==
  (call.op = "ancestor_families_with_distance" /\ Acyclic) =>
    /\ ret.kind = "list"
    /\ \A j, k \in 1..Len(ret.val) : j < k => ret.val[j][2] <= ret.val[k][2]
    /\ {ret.val[k][1] : k \in 1..Len(ret.val)} = AncestorFamilies(call.self)
    /\ \A k \in 1..Len(ret.val) :
         ret.val[k][2] = FamDistance(call.self, ret.val[k][1])

\* --------------------------------------------- common ancestor families
CommonFamilies(a, b) == AncestorFamilies(a) \cap AncestorFamilies(b)
NearestCommon(a, b) ==
  {f \in CommonFamilies(a, b) :
     \A g \in CommonFamilies(a, b) : FamDistance(a, f) <= FamDistance(a, g)}

\* C11: for A and B without a shared parent family, on acyclic data,
\* common_ancestor_families(A, B) is empty when no family is an ancestor
\* family of both, and otherwise holds exactly the common ancestor families
\* at the least distance from A, each of them once.
C11_NearestCommonEachOnce ==
  (/\ call.op = "common_ancestor_families" /\ Acyclic
   /\ Shared(call.self, call.relative) = {}) =>
    /\ ret.kind = "list"
    /\ Range(ret.val) = NearestCommon(call.self, call.relative)
    /\ NoRepeat(ret.val)

\* -------------------------------------------------------- compact paths
Occurrences(path, x) == Cardinality({k \in 1..Len(path) : path[k][1] = x})
Labels(path) == {path[k][2] : k \in 1..Len(path)}

\* C12: on acyclic data path_to_relative(self, relative, compact = True)
\* does not raise, and a path it finds through a common ancestor either
\* has a step labelled sibling and not the ancestor, or has the ancestor
\* exactly once and no step labelled sibling.
C12_CompactAncestorOnce ==
  (/\ call.op = "path_to_relative" /\ call.compact /\ Acyclic
   /\ call.relative # call.self
   /\ call.relative \notin Range(parents(call.self))
   /\ call.relative \notin Range(children(call.self))) =>
    /\ ret.kind \in {"None", "list"}
    /\ ret.kind = "list" =>
         \E ord \in Orders :
           LET cas == common_ancestors(call.self, call.relative, ord)
           IN  /\ cas.kind = "list" /\ cas.val # <<>>
               /\ \/ /\ "sibling" \in Labels(ret.val)
                     /\ Occurrences(ret.val, cas.val[1]) = 0
                  \/ /\ "sibling" \notin Labels(ret.val)
                     /\ Occurrences(ret.val, cas.val[1]) = 1

\* ------------------------------------------------------------ walks
RecordsOf(path) == [k \in 1..Len(path) |-> path[k][1]]
NoCommonAncestor(a, b) ==
  \A ord \in AllOrders : common_ancestors(a, b, ord) = RList(<<>>)

\* C13: on acyclic data, a path that path_to_relative(self, relative)
\* returns without compact is a walk from self to relative: it starts with
\* (self, start) and ends at relative, a step labelled parent is a parent of
\* the record before it and a step labelled child a child of it, no parent
\* step follows a child step and no record occurs twice; and it returns None,
\* without raising, exactly when self and relative have no common ancestor
\* and relative is neither self, a parent nor a child of self.
C13_ValidWalk ==
  (call.op = "path_to_relative" /\ ~call.compact /\ Acyclic) =>
    /\ ret.kind \in {"None", "list"}
    /\ ret.kind = "list" =>
         /\ ret.val[1] = <<call.self, "start">>
         /\ ret.val[Len(ret.val)][1] = call.relative
         /\ \A k \in 2..Len(ret.val) :
              \/ /\ ret.val[k][2] = "parent"
                 /\ ret.val[k][1] \in Range(parents(ret.val[k - 1][1]))
              \/ /\ ret.val[k][2] = "child"
                 /\ ret.val[k][1] \in Range(children(ret.val[k - 1][1]))
         /\ \A j, k \in 2..Len(ret.val) :
              (j < k /\ ret.val[j][2] = "child") => ret.val[k][2] = "child"
         /\ NoRepeat(RecordsOf(ret.val))
    /\ ret.kind = "None" <=>
         /\ NoCommonAncestor(call.self, call.relative)
         /\ call.relative # call.self
         /\ call.relative \notin Range(parents(call.self))
         /\ call.relative \notin Range(children(call.self))

\* ------------------------------------------------------ descendant search
\* the individuals exactly n children() hops below a
RECURSIVE ChildHops(_, _)
ChildHops(a, n) ==
  IF n = 0 THEN {a}
  ELSE UNION {Range(children(c)) : c \in ChildHops(a, n - 1)}
Within(a, x, d) == \E n \in 0..d : x \in ChildHops(a, n)
FirstWhere(s, P(_)) == s[CHOOSE k \in 1..Len(s) : P(s[k]) /\ \A j \in 1..(k - 1) : ~P(s[j])]

====
